---- MODULE Spec2Model ----
(***************************************************************************)
(* Enemy template tooling: template inheritance chain, template           *)
(* validation and the validation result record, applying a template to    *)
(* an instance, child templates and the validation of a configuration,    *)
(* modelled from EnemyTemplate.cpp, EnemyTemplate.h, EnemyTemplateTypes.h, *)
(* EnemyConfiguration.cpp and EnemyCreatorTypes.h.                        *)
(***************************************************************************)
EXTENDS Integers, Sequences, FiniteSets, TLC

VARIABLES
    templates,      \* template id -> UEnemyTemplate object
    OutResult,      \* the caller's FEnemyTemplateValidationResult
    lastOp,         \* the operation that produced the current state
    chainCall,      \* the last GetInheritanceChain call: receiver, returned chain, loop iterations
    validateCall,   \* the last ValidateTemplate call: receiver, return value, checks run
    history,        \* per template: has GetInheritanceChain been called, was the parent edited since
    crashed,        \* the process died of a stack overflow
    edits,          \* number of property edits made in the editor
    config,         \* the UEnemyConfiguration object
    applyCall,      \* the last ApplyToInstance call: receiver, arguments, what it computed
    cloneCall,      \* the last CreateChildTemplate call: parent as it was, child, given name
    message,        \* the argument of the last AddError or AddWarning call
    toolCall        \* the last configuration or creator tool call: returned pointer,
                    \* configuration before it, template it built

vars == <<templates, OutResult, lastOp, chainCall, validateCall, history, crashed, edits,
          config, applyCall, cloneCall, message, toolCall>>

----------------------------------------------------------------------------
(* Bounds and value domains *)

NumTemplates == 3

\* property edits explored from the constructed state
MaxEdits == 2

Templates == 1..NumTemplates

\* nullptr / an unset soft object pointer
Null == 0

\* a loaded asset (any non-null soft pointer target)
Asset == 1

\* a second loaded asset, different from the first
OtherAsset == 2

\* FName() : the none name
NAME_None == "None"

\* FText() : the empty text
EmptyText == ""

----------------------------------------------------------------------------
(* EnemyTemplateTypes.h *)

\* the default stats; CriticalChance is held in hundredths (0.05), AttackSpeed
\* and CriticalMultiplier in tenths (1.0 and 2.0)
FEnemyBaseStats ==
    [Health |-> 100, Damage |-> 20, Speed |-> 300, AttackSpeed |-> 10, Defense |-> 10,
     CriticalChance |-> 5, CriticalMultiplier |-> 20]

FEnemyAIConfig == [BehaviorTree |-> Null, Blackboard |-> Null]

FEnemyVisualCustomization == [SkeletalMesh |-> Null, AnimationBlueprint |-> Null]

\* TMap : the entries in insertion order, no key twice
MapKeys(Map) == {Map[i].Key : i \in 1..Len(Map)}

\* TMap::Contains
MapContains(Map, Key) == Key \in MapKeys(Map)

\* TMap::operator[] on a key that is present
MapFind(Map, Key) == Map[CHOOSE i \in 1..Len(Map) : Map[i].Key = Key].Value

\* a default constructed modification
FEnemyTemplateModification ==
    [StatMultipliers |-> <<>>,
     ModifiedAbilities |-> <<>>,
     AIModifications |-> FEnemyAIConfig,
     VisualModifications |-> FEnemyVisualCustomization,
     AdditionalTags |-> {}]

\* a default constructed result: bIsValid = false, no messages
FEnemyTemplateValidationResult ==
    [bIsValid |-> FALSE, ValidationErrors |-> <<>>, ValidationWarnings |-> <<>>]

\* NSLOCTEXT / FText::Format : a message is its key and its format arguments
Text(key, args) == [Key |-> key, Args |-> args]

\* an AddError that forgets the validity flag
AddError_KeepValid(R, Error) ==
    [R EXCEPT !.ValidationErrors = Append(@, Error)]

AddError(R, Error) ==
    [R EXCEPT !.ValidationErrors = Append(@, Error), !.bIsValid = FALSE]

\* an AddWarning that puts the message in front
AddWarning_Prepend(R, Warning) ==
    [R EXCEPT !.ValidationWarnings = <<Warning>> \o @]

AddWarning(R, Warning) ==
    [R EXCEPT !.ValidationWarnings = Append(@, Warning)]

\* a Clear that empties the lists and leaves the flag as it is
Clear_KeepFlag(R) ==
    [R EXCEPT !.ValidationErrors = <<>>, !.ValidationWarnings = <<>>]

\* a Clear that resets the flag and keeps the messages
Clear_KeepMessages(R) ==
    [R EXCEPT !.bIsValid = TRUE]

Clear(R) ==
    [R EXCEPT !.bIsValid = TRUE, !.ValidationErrors = <<>>, !.ValidationWarnings = <<>>]

----------------------------------------------------------------------------
(* UEnemyTemplate *)

\* UEnemyTemplate::UEnemyTemplate()
UEnemyTemplate ==
    [TemplateName |-> NAME_None,
     DisplayName |-> EmptyText,
     Description |-> EmptyText,
     ParentTemplate |-> Null,
     TemplateTags |-> {},
     BaseStats |-> FEnemyBaseStats,
     AIConfig |-> FEnemyAIConfig,
     VisualCustomization |-> FEnemyVisualCustomization,
     Abilities |-> <<>>,
     CachedInheritanceChain |-> <<>>,
     bNeedsInheritanceChainUpdate |-> TRUE]

\* TArray::Contains
Contains(Array, Item) == \E i \in 1..Len(Array) : Array[i] = Item

\* the while loop of GetInheritanceChain, with the number of iterations run
RECURSIVE ChainLoop(_, _, _, _)

\* a loop that tests for the repeated entry before adding the current one
RECURSIVE ChainLoop_CheckBeforeAdd(_, _, _, _)
ChainLoop_CheckBeforeAdd(tpl, Chain, Current, iters) ==
    IF Current = Null
    THEN [chain |-> Chain, iters |-> iters]
    ELSE LET next == tpl[Current].ParentTemplate
         IN  IF Contains(Chain, next)
             THEN [chain |-> Append(Chain, Current), iters |-> iters + 1]
             ELSE ChainLoop_CheckBeforeAdd(tpl, Append(Chain, Current), next, iters + 1)

\* a loop that moves to the parent before adding, so that the receiver is left out
RECURSIVE ChainLoop_AdvanceBeforeAdd(_, _, _, _)
ChainLoop_AdvanceBeforeAdd(tpl, Chain, Current, iters) ==
    IF Current = Null
    THEN [chain |-> Chain, iters |-> iters]
    ELSE LET next == tpl[Current].ParentTemplate
         IN  IF next = Null \/ Contains(Chain, next)
             THEN [chain |-> Chain, iters |-> iters + 1]
             ELSE ChainLoop_AdvanceBeforeAdd(tpl, Append(Chain, next), next, iters + 1)

ChainLoop(tpl, Chain, Current, iters) ==
    IF Current = Null
    THEN [chain |-> Chain, iters |-> iters]
    ELSE LET added == Append(Chain, Current)
             next == tpl[Current].ParentTemplate
         IN  IF Contains(added, next)
             THEN [chain |-> added, iters |-> iters + 1]
             ELSE ChainLoop(tpl, added, next, iters + 1)

\* UEnemyTemplate::GetInheritanceChain : the objects after the call, the
\* returned chain and the number of loop iterations
GetInheritanceChain(tpl, self) ==
    IF tpl[self].bNeedsInheritanceChainUpdate
    THEN LET walk == ChainLoop(tpl, <<>>, self, 0)
         IN  [tpl |-> [tpl EXCEPT ![self].CachedInheritanceChain = walk.chain,
                                  ![self].bNeedsInheritanceChainUpdate = FALSE],
              chain |-> walk.chain,
              iters |-> walk.iters]
    ELSE [tpl |-> tpl, chain |-> tpl[self].CachedInheritanceChain, iters |-> 0]

----------------------------------------------------------------------------
(* Child templates *)

\* a child that does not get the parent's abilities
ChildTemplate_SkipAbilities(Parent, self, NewTemplateName) ==
    [UEnemyTemplate EXCEPT !.ParentTemplate = self,
                           !.TemplateName = NewTemplateName,
                           !.BaseStats = Parent.BaseStats,
                           !.AIConfig = Parent.AIConfig,
                           !.VisualCustomization = Parent.VisualCustomization]

\* a child that does not get the parent's AI config
ChildTemplate_SkipAIConfig(Parent, self, NewTemplateName) ==
    [UEnemyTemplate EXCEPT !.ParentTemplate = self,
                           !.TemplateName = NewTemplateName,
                           !.BaseStats = Parent.BaseStats,
                           !.VisualCustomization = Parent.VisualCustomization,
                           !.Abilities = Parent.Abilities]

\* a child without the reference to its parent
ChildTemplate_Orphan(Parent, self, NewTemplateName) ==
    [UEnemyTemplate EXCEPT !.TemplateName = NewTemplateName,
                           !.BaseStats = Parent.BaseStats,
                           !.AIConfig = Parent.AIConfig,
                           !.VisualCustomization = Parent.VisualCustomization,
                           !.Abilities = Parent.Abilities]

\* the object CreateChildTemplate builds: a constructed template, then the
\* assignments of the function body
ChildTemplate(Parent, self, NewTemplateName) ==
    [UEnemyTemplate EXCEPT !.ParentTemplate = self,
                           !.TemplateName = NewTemplateName,
                           !.BaseStats = Parent.BaseStats,
                           !.AIConfig = Parent.AIConfig,
                           !.VisualCustomization = Parent.VisualCustomization,
                           !.Abilities = Parent.Abilities]

\* UEnemyTemplate::CreateChildTemplate : the objects after the call (NewObject
\* takes the next free id) and the returned child
CreateChildTemplate(tpl, self, NewTemplateName) ==
    [tpl |-> Append(tpl, ChildTemplate(tpl[self], self, NewTemplateName)),
     child |-> Len(tpl) + 1]

----------------------------------------------------------------------------
(* Validation *)

\* FName::ToString / FText::FromName
FromName(Name) == Name

\* FText::AsNumber
AsNumber(n) == ToString(n)

\* TArray::IndexOfByKey : zero based position of the first equal element
IndexOfByKey(Array, Item) ==
    IF Contains(Array, Item)
    THEN (CHOOSE i \in 1..Len(Array) :
              /\ Array[i] = Item
              /\ \A j \in 1..(i - 1) : Array[j] # Item) - 1
    ELSE -1

\* a visual check that records the missing mesh and carries on
ValidateVisualAssets_NoEarlyReturn(T, OutResultIn) ==
    LET r1 == IF T.VisualCustomization.SkeletalMesh = Null
              THEN AddError(OutResultIn, Text("NoSkeletalMesh", <<>>))
              ELSE OutResultIn
    IN  [ret |-> TRUE, res |-> r1]

\* a visual check that treats the missing animation blueprint as an error
ValidateVisualAssets_AnimBPError(T, OutResultIn) ==
    IF T.VisualCustomization.SkeletalMesh = Null
    THEN [ret |-> FALSE, res |-> AddError(OutResultIn, Text("NoSkeletalMesh", <<>>))]
    ELSE IF T.VisualCustomization.AnimationBlueprint = Null
         THEN [ret |-> FALSE, res |-> AddError(OutResultIn, Text("NoAnimBP", <<>>))]
         ELSE [ret |-> TRUE, res |-> OutResultIn]

\* UEnemyTemplate::ValidateVisualAssets
ValidateVisualAssets(T, OutResultIn) ==
    IF T.VisualCustomization.SkeletalMesh = Null
    THEN [ret |-> FALSE, res |-> AddError(OutResultIn, Text("NoSkeletalMesh", <<>>))]
    ELSE IF T.VisualCustomization.AnimationBlueprint = Null
         THEN [ret |-> TRUE, res |-> AddWarning(OutResultIn, Text("NoAnimBP", <<>>))]
         ELSE [ret |-> TRUE, res |-> OutResultIn]

\* an AI check that goes on to the blackboard after a missing behavior tree
ValidateAIConfiguration_CheckBoth(T, OutResultIn) ==
    LET r1 == IF T.AIConfig.BehaviorTree = Null
              THEN AddError(OutResultIn, Text("NoBehaviorTree", <<>>))
              ELSE OutResultIn
        r2 == IF T.AIConfig.Blackboard = Null
              THEN AddError(r1, Text("NoBlackboard", <<>>))
              ELSE r1
    IN  [ret |-> T.AIConfig.BehaviorTree # Null /\ T.AIConfig.Blackboard # Null,
         res |-> r2]

\* UEnemyTemplate::ValidateAIConfiguration
ValidateAIConfiguration(T, OutResultIn) ==
    IF T.AIConfig.BehaviorTree = Null
    THEN [ret |-> FALSE, res |-> AddError(OutResultIn, Text("NoBehaviorTree", <<>>))]
    ELSE IF T.AIConfig.Blackboard = Null
         THEN [ret |-> FALSE, res |-> AddError(OutResultIn, Text("NoBlackboard", <<>>))]
         ELSE [ret |-> TRUE, res |-> OutResultIn]

\* the body of the ability loop for the ability at (one based) position i
CheckAbility(Abilities, i, R) ==
    LET Ability == Abilities[i]
        r1 == IF Ability.AbilityName = NAME_None
              THEN AddError(R, Text("NoAbilityName",
                                    <<AsNumber(IndexOfByKey(Abilities, Ability))>>))
              ELSE R
        r2 == IF Ability.AbilityClass = Null
              THEN AddError(r1, Text("NoAbilityClass", <<FromName(Ability.AbilityName)>>))
              ELSE r1
    IN  [ok |-> Ability.AbilityName # NAME_None /\ Ability.AbilityClass # Null,
         res |-> r2]

\* an ability loop that returns at the first ability in error
RECURSIVE AbilitiesLoop_StopAtFirst(_, _, _, _)
AbilitiesLoop_StopAtFirst(Abilities, i, R, bIsValid) ==
    IF i > Len(Abilities)
    THEN [ret |-> bIsValid, res |-> R]
    ELSE LET step == CheckAbility(Abilities, i, R)
         IN  IF step.ok
             THEN AbilitiesLoop_StopAtFirst(Abilities, i + 1, step.res, bIsValid)
             ELSE [ret |-> FALSE, res |-> step.res]

\* the for loop of ValidateAbilities from position i on
RECURSIVE AbilitiesLoop(_, _, _, _)
AbilitiesLoop(Abilities, i, R, bIsValid) ==
    IF i > Len(Abilities)
    THEN [ret |-> bIsValid, res |-> R]
    ELSE LET step == CheckAbility(Abilities, i, R)
         IN  AbilitiesLoop(Abilities, i + 1, step.res, bIsValid /\ step.ok)

\* UEnemyTemplate::ValidateAbilities
ValidateAbilities(T, OutResultIn) ==
    AbilitiesLoop(T.Abilities, 1, OutResultIn, TRUE)

\* a parent failure that records the wrapping error alone
AddParentErrors_WrapOnly(R, Parent, ParentResult) ==
    AddError(R, Text("InvalidParentTemplate", <<FromName(Parent.TemplateName)>>))

\* the parent of the validated template failed: the wrapping error, then the
\* parent's errors
AddParentErrors(R, Parent, ParentResult) ==
    [AddError(R, Text("InvalidParentTemplate", <<FromName(Parent.TemplateName)>>))
        EXCEPT !.ValidationErrors = @ \o ParentResult.ValidationErrors]

\* the call never returns: the recursion has no base case and the stack overflows
StackOverflow ==
    [ret |-> FALSE, res |-> FEnemyTemplateValidationResult, ran |-> <<>>, fault |-> TRUE]

\* UEnemyTemplate::ValidateTemplate on template self with the caller's result
\* OutResultIn; active is the set of templates whose ValidateTemplate is on
\* the call stack. A call on a template that is already active repeats the
\* same call on the same unchanged objects without end.
RECURSIVE ValidateTemplate(_, _, _, _)
ValidateTemplate(tpl, self, OutResultIn, active) ==
    IF self \in active
    THEN StackOverflow
    ELSE
    LET T == tpl[self]
        r0 == Clear(OutResultIn)
        r1 == IF T.TemplateName = NAME_None
              THEN AddError(r0, Text("NoTemplateName", <<>>))
              ELSE r0
        r2 == IF T.DisplayName = EmptyText
              THEN AddWarning(r1, Text("NoDisplayName", <<>>))
              ELSE r1
        parent == ValidateTemplate(tpl, T.ParentTemplate,
                                   FEnemyTemplateValidationResult, active \cup {self})
    IN  IF T.ParentTemplate # Null /\ parent.fault
        THEN StackOverflow
        ELSE
        LET r3 == IF T.ParentTemplate # Null /\ ~parent.ret
                  THEN AddParentErrors(r2, tpl[T.ParentTemplate], parent.res)
                  ELSE r2
            visual == ValidateVisualAssets(T, r3)
            ai == ValidateAIConfiguration(T, visual.res)
            abilities == ValidateAbilities(T, ai.res)
        IN  IF ~visual.ret
            THEN [ret |-> FALSE, res |-> visual.res, fault |-> FALSE,
                  ran |-> <<"ValidateVisualAssets">>]
            ELSE IF ~ai.ret
            THEN [ret |-> FALSE, res |-> ai.res, fault |-> FALSE,
                  ran |-> <<"ValidateVisualAssets", "ValidateAIConfiguration">>]
            ELSE IF ~abilities.ret
            THEN [ret |-> FALSE, res |-> abilities.res, fault |-> FALSE,
                  ran |-> <<"ValidateVisualAssets", "ValidateAIConfiguration",
                            "ValidateAbilities">>]
            ELSE [ret |-> abilities.res.bIsValid, res |-> abilities.res, fault |-> FALSE,
                  ran |-> <<"ValidateVisualAssets", "ValidateAIConfiguration",
                            "ValidateAbilities">>]

----------------------------------------------------------------------------
(* Applying a template to an enemy instance *)

\* a pointer to a modification: no element for nullptr, else the object
NullModification == <<>>

PointerTo(Modification) == <<Modification>>

\* an enemy instance without an ability system component
PlainCharacter == 1

\* an enemy instance that owns an ability system component
CharacterWithAbilities == 2

\* FindComponentByClass<UAbilitySystemComponent>() finds a component
FindAbilitySystem(EnemyInstance) == EnemyInstance = CharacterWithAbilities

\* GetStatValuePtr : the address of the stat field with the given name, no
\* element (nullptr) when no field has that name
GetStatValuePtr(Stats, StatName) ==
    IF StatName \in DOMAIN Stats THEN <<StatName>> ELSE <<>>

\* a loop body that leaves out the multipliers of zero and below
ApplyStatMod_SkipNonPositive(FinalStats, StatMod) ==
    LET StatValue == GetStatValuePtr(FinalStats, StatMod.Key)
    IN  IF StatValue # <<>> /\ StatMod.Value > 0
        THEN [FinalStats EXCEPT ![StatValue[1]] = @ * StatMod.Value]
        ELSE FinalStats

\* the body of the stat loop: *StatValue *= StatMod.Value
ApplyStatMod(FinalStats, StatMod) ==
    LET StatValue == GetStatValuePtr(FinalStats, StatMod.Key)
    IN  IF StatValue # <<>>
        THEN [FinalStats EXCEPT ![StatValue[1]] = @ * StatMod.Value]
        ELSE FinalStats

\* the for loop over Modification->StatMultipliers from entry i on
RECURSIVE StatLoop(_, _, _)
StatLoop(FinalStats, StatMultipliers, i) ==
    IF i > Len(StatMultipliers)
    THEN FinalStats
    ELSE StatLoop(ApplyStatMod(FinalStats, StatMultipliers[i]), StatMultipliers, i + 1)

\* visuals that keep the template's asset where the modification has none
FinalVisuals_Merge(T, Modification) ==
    IF Modification # NullModification
    THEN LET M == Modification[1].VisualModifications
         IN  [f \in DOMAIN M |-> IF M[f] = Null THEN T.VisualCustomization[f] ELSE M[f]]
    ELSE T.VisualCustomization

\* FinalVisuals of ApplyToInstance
FinalVisuals(T, Modification) ==
    IF Modification # NullModification
    THEN Modification[1].VisualModifications
    ELSE T.VisualCustomization

\* FinalAIConfig of ApplyToInstance
FinalAIConfig(T, Modification) ==
    IF Modification # NullModification
    THEN Modification[1].AIModifications
    ELSE T.AIConfig

\* an ability loop body that never looks at the overrides
AbilityToApply_TemplateOnly(Ability, Modification) ==
    Ability

\* the body of the ability loop: the definition handed to ApplyAbility
AbilityToApply(Ability, Modification) ==
    IF /\ Modification # NullModification
       /\ MapContains(Modification[1].ModifiedAbilities, Ability.AbilityName)
    THEN MapFind(Modification[1].ModifiedAbilities, Ability.AbilityName)
    ELSE Ability

\* UEnemyTemplate::ApplyAbility : the abilities granted so far, and then this
\* one when its class resolves
ApplyAbility(Granted, Ability) ==
    IF Ability.AbilityClass = Null THEN Granted ELSE Append(Granted, Ability)

\* the abilities granted by handing Applied[i..] to ApplyAbility in order
RECURSIVE GrantLoop(_, _, _)
GrantLoop(Granted, Applied, i) ==
    IF i > Len(Applied)
    THEN Granted
    ELSE GrantLoop(ApplyAbility(Granted, Applied[i]), Applied, i + 1)

\* a failed application: false is returned before anything is computed and
\* before any of the apply helpers is called
NothingApplied ==
    [ret |-> FALSE, FinalStats |-> FEnemyBaseStats,
     FinalVisuals |-> FEnemyVisualCustomization,
     FinalAIConfig |-> FEnemyAIConfig, Applied |-> <<>>, Granted |-> <<>>,
     calls |-> <<>>]

\* UEnemyTemplate::ApplyToInstance on template T : the return value, the
\* effective stats, visuals and AI config, the definitions handed to
\* ApplyAbility in call order, the abilities granted and the apply helpers
\* called
ApplyToInstance(T, EnemyInstance, Modification) ==
    IF EnemyInstance = Null
    THEN NothingApplied
    ELSE LET Applied ==
                 IF FindAbilitySystem(EnemyInstance)
                 THEN [i \in 1..Len(T.Abilities) |->
                          AbilityToApply(T.Abilities[i], Modification)]
                 ELSE <<>>
         IN  [ret |-> TRUE,
              FinalStats |-> IF Modification # NullModification
                             THEN StatLoop(T.BaseStats, Modification[1].StatMultipliers, 1)
                             ELSE T.BaseStats,
              FinalVisuals |-> FinalVisuals(T, Modification),
              FinalAIConfig |-> FinalAIConfig(T, Modification),
              Applied |-> Applied,
              Granted |-> GrantLoop(<<>>, Applied, 1),
              calls |-> <<"ApplyVisualCustomization", "ApplyAIConfiguration">>
                        \o [i \in 1..Len(Applied) |-> "ApplyAbility"]]

----------------------------------------------------------------------------
(* UEnemyConfiguration *)

\* a default constructed UEnemyConfiguration
UEnemyConfiguration ==
    [BaseTemplate |-> Null, Modifications |-> FEnemyTemplateModification]

\* a soft object pointer whose path is set and whose object is not loaded
Unresolved == -1

\* TSoftObjectPtr::IsValid : the pointer resolves to a live object
IsValid(tpl, Pointer) == Pointer \in DOMAIN tpl

\* TSoftObjectPtr::Get
Get(tpl, Pointer) == IF Pointer \in DOMAIN tpl THEN Pointer ELSE Null

\* UEnemyTemplate::GetAbilities
GetAbilities(T) == T.Abilities

\* a multiplier loop that lets a value of zero pass
RECURSIVE StatMultiplierLoop_AllowZero(_, _, _)
StatMultiplierLoop_AllowZero(StatMultipliers, i, R) ==
    IF i > Len(StatMultipliers)
    THEN [ret |-> TRUE, res |-> R]
    ELSE LET StatMod == StatMultipliers[i]
         IN  IF StatMod.Value < 0
             THEN [ret |-> FALSE,
                   res |-> AddError(R, Text("InvalidStatMultiplier",
                                            <<AsNumber(StatMod.Value),
                                              FromName(StatMod.Key)>>))]
             ELSE StatMultiplierLoop_AllowZero(StatMultipliers, i + 1, R)

\* the loop over Modifications.StatMultipliers from entry i on: it returns at
\* the first value of zero or below
RECURSIVE StatMultiplierLoop(_, _, _)
StatMultiplierLoop(StatMultipliers, i, R) ==
    IF i > Len(StatMultipliers)
    THEN [ret |-> TRUE, res |-> R]
    ELSE LET StatMod == StatMultipliers[i]
         IN  IF StatMod.Value <= 0
             THEN [ret |-> FALSE,
                   res |-> AddError(R, Text("InvalidStatMultiplier",
                                            <<AsNumber(StatMod.Value),
                                              FromName(StatMod.Key)>>))]
             ELSE StatMultiplierLoop(StatMultipliers, i + 1, R)

\* the inner loop: some ability of the template has the name Key
AbilityFound(T, Key) ==
    \E k \in 1..Len(GetAbilities(T)) : GetAbilities(T)[k].AbilityName = Key

\* the loop over Modifications.ModifiedAbilities from entry i on: it returns
\* at the first key that is none or names no ability of the template
RECURSIVE ModifiedAbilityLoop(_, _, _, _)
ModifiedAbilityLoop(ModifiedAbilities, T, i, R) ==
    IF i > Len(ModifiedAbilities)
    THEN [ret |-> TRUE, res |-> R]
    ELSE LET AbilityMod == ModifiedAbilities[i]
         IN  IF AbilityMod.Key = NAME_None
             THEN [ret |-> FALSE,
                   res |-> AddError(R, Text("InvalidAbilityModification", <<>>))]
             ELSE IF ~AbilityFound(T, AbilityMod.Key)
             THEN [ret |-> FALSE,
                   res |-> AddError(R, Text("UnknownAbilityModification",
                                            <<FromName(AbilityMod.Key)>>))]
             ELSE ModifiedAbilityLoop(ModifiedAbilities, T, i + 1, R)

\* the two loops over the modification, run on a template that passed
CheckModifications(Config, T, R) ==
    LET stats == StatMultiplierLoop(Config.Modifications.StatMultipliers, 1, R)
    IN  IF ~stats.ret
        THEN stats
        ELSE ModifiedAbilityLoop(Config.Modifications.ModifiedAbilities, T, 1, R)

\* a template step that goes on to the modification whatever the template's
\* verdict
AfterValidateTemplate_GoOn(call, checks) ==
    [ret |-> checks.ret, res |-> checks.res, fault |-> FALSE]

\* if (!Template->ValidateTemplate(OutResult)) return false; then the checks
\* of the modification
AfterValidateTemplate(call, checks) ==
    IF ~call.ret
    THEN [ret |-> FALSE, res |-> call.res, fault |-> FALSE]
    ELSE [ret |-> checks.ret, res |-> checks.res, fault |-> FALSE]

\* ValidateConfiguration after OutResult.Clear(), R being the cleared result
ValidateConfigurationFrom(tpl, Config, R) ==
    IF ~IsValid(tpl, Config.BaseTemplate)
    THEN [ret |-> FALSE, res |-> AddError(R, Text("NoBaseTemplate", <<>>)),
          fault |-> FALSE]
    ELSE LET Template == Get(tpl, Config.BaseTemplate)
         IN  IF Template = Null
             THEN [ret |-> FALSE, res |-> AddError(R, Text("InvalidBaseTemplate", <<>>)),
                   fault |-> FALSE]
             ELSE LET call == ValidateTemplate(tpl, Template, R, {})
                  IN  IF call.fault
                      THEN [ret |-> FALSE, res |-> R, fault |-> TRUE]
                      ELSE AfterValidateTemplate(
                               call, CheckModifications(Config, tpl[Template], call.res))

\* UEnemyTemplate::GetAIConfig
GetAIConfig(T) == T.AIConfig

\* UEnemyTemplate::GetVisualCustomization
GetVisualCustomization(T) == T.VisualCustomization

\* UEnemyTemplate::GetTemplateTags
GetTemplateTags(T) == T.TemplateTags

\* an InitializeFromTemplate that empties the maps before it looks at the pointer
InitializeFromTemplate_EmptyFirst(tpl, Config, Template) ==
    LET Emptied == [Config EXCEPT !.Modifications.StatMultipliers = <<>>,
                                  !.Modifications.ModifiedAbilities = <<>>]
    IN  IF Template = Null
        THEN Emptied
        ELSE [Emptied EXCEPT
                  !.BaseTemplate = Template,
                  !.Modifications.AIModifications = GetAIConfig(tpl[Template]),
                  !.Modifications.VisualModifications = GetVisualCustomization(tpl[Template]),
                  !.Modifications.AdditionalTags = GetTemplateTags(tpl[Template])]

\* an InitializeFromTemplate that keeps the stat multipliers
InitializeFromTemplate_KeepMultipliers(tpl, Config, Template) ==
    IF Template = Null
    THEN Config
    ELSE [Config EXCEPT
              !.BaseTemplate = Template,
              !.Modifications.ModifiedAbilities = <<>>,
              !.Modifications.AIModifications = GetAIConfig(tpl[Template]),
              !.Modifications.VisualModifications = GetVisualCustomization(tpl[Template]),
              !.Modifications.AdditionalTags = GetTemplateTags(tpl[Template])]

\* UEnemyConfiguration::InitializeFromTemplate : the configuration after the call
InitializeFromTemplate(tpl, Config, Template) ==
    IF Template = Null
    THEN Config
    ELSE [Config EXCEPT
              !.BaseTemplate = Template,
              !.Modifications.StatMultipliers = <<>>,
              !.Modifications.ModifiedAbilities = <<>>,
              !.Modifications.AIModifications = GetAIConfig(tpl[Template]),
              !.Modifications.VisualModifications = GetVisualCustomization(tpl[Template]),
              !.Modifications.AdditionalTags = GetTemplateTags(tpl[Template])]

\* UEnemyConfiguration::ApplyConfiguration : what ApplyToInstance did, or
\* nothing
ApplyConfiguration(tpl, Config, Enemy) ==
    IF Enemy = Null \/ ~IsValid(tpl, Config.BaseTemplate)
    THEN NothingApplied
    ELSE LET Template == Get(tpl, Config.BaseTemplate)
         IN  IF Template = Null
             THEN NothingApplied
             ELSE ApplyToInstance(tpl[Template], Enemy, PointerTo(Config.Modifications))

\* the configuration object CreateEnemyConfiguration returns
NewConfig == 1

\* UEnemyCreatorTool::UpdatePreview : what was applied to the preview actor
UpdatePreview(tpl, PreviewActor, Config) ==
    IF PreviewActor = Null
    THEN NothingApplied
    ELSE ApplyConfiguration(tpl, Config, PreviewActor)

\* UEnemyCreatorTool::CreateEnemyConfiguration : the returned pointer, the
\* configuration in use after the call and what the preview actor got
CreateEnemyConfiguration(tpl, Config, BaseTemplate, PreviewActor) ==
    IF BaseTemplate = Null
    THEN [ret |-> Null, config |-> Config, preview |-> NothingApplied]
    ELSE LET Created == InitializeFromTemplate(
                            tpl, [UEnemyConfiguration EXCEPT !.BaseTemplate = BaseTemplate],
                            BaseTemplate)
         IN  [ret |-> NewConfig, config |-> Created,
              preview |-> UpdatePreview(tpl, PreviewActor, Created)]

\* a ValidateConfiguration that does not clear the caller's result
ValidateConfiguration_NoClear(tpl, Config, OutResultIn) ==
    ValidateConfigurationFrom(tpl, Config, OutResultIn)

\* UEnemyConfiguration::ValidateConfiguration
ValidateConfiguration(tpl, Config, OutResultIn) ==
    ValidateConfigurationFrom(tpl, Config, Clear(OutResultIn))

----------------------------------------------------------------------------
(* Operations *)

NoChainCall == [self |-> Null, chain |-> <<>>, iters |-> 0, before |-> "never"]

NoValidateCall == [self |-> Null, ret |-> FALSE, ran |-> <<>>, dirty |-> FALSE]

NoApplyCall ==
    [self |-> Null, EnemyInstance |-> Null, Modification |-> NullModification,
     out |-> ApplyToInstance(UEnemyTemplate, Null, NullModification)]

\* no AddError or AddWarning call yet
NoMessage == Text(EmptyText, <<>>)

NoCloneCall == [self |-> Null, child |-> Null, name |-> NAME_None, before |-> UEnemyTemplate]

NoToolCall ==
    [ret |-> Null, arg |-> Null, before |-> UEnemyConfiguration, created |-> UEnemyTemplate]

\* no configuration object, no ApplyToInstance and no CreateChildTemplate call
NothingElse ==
    /\ config = UEnemyConfiguration
    /\ applyCall = NoApplyCall
    /\ cloneCall = NoCloneCall
    /\ message = NoMessage
    /\ toolCall = NoToolCall

\* every template freshly constructed, nothing called yet
Init ==
    /\ templates = [t \in Templates |-> UEnemyTemplate]
    /\ OutResult = FEnemyTemplateValidationResult
    /\ lastOp = "Construct"
    /\ chainCall = NoChainCall
    /\ validateCall = NoValidateCall
    /\ history = [t \in Templates |-> "never"]
    /\ crashed = FALSE
    /\ edits = 0
    /\ NothingElse

\* the ParentTemplate property of t is edited (EditAnywhere); nothing marks the
\* cached inheritance chain for an update
EditParentTemplate(t, p) ==
    /\ ~crashed
    /\ edits < MaxEdits
    /\ templates[t].ParentTemplate # p
    /\ edits' = edits + 1
    /\ templates' = [templates EXCEPT ![t].ParentTemplate = p]
    /\ history' = [history EXCEPT ![t] = IF @ = "never" THEN "never" ELSE "edited"]
    /\ lastOp' = "EditParentTemplate"
    /\ UNCHANGED <<OutResult, chainCall, validateCall, crashed, config, applyCall, cloneCall, message, toolCall>>

CallGetInheritanceChain(t) ==
    /\ ~crashed
    /\ LET call == GetInheritanceChain(templates, t)
       IN  /\ templates' = call.tpl
           /\ chainCall' = [self |-> t, chain |-> call.chain, iters |-> call.iters,
                            before |-> history[t]]
    /\ history' = [history EXCEPT ![t] = "clean"]
    /\ lastOp' = "GetInheritanceChain"
    /\ UNCHANGED <<OutResult, validateCall, crashed, edits, config, applyCall, cloneCall, message, toolCall>>

\* a caller validates template t into its result object
CallValidateTemplate(t) ==
    /\ ~crashed
    /\ LET call == ValidateTemplate(templates, t, OutResult, {})
       IN  /\ crashed' = call.fault
           /\ OutResult' = IF call.fault THEN OutResult ELSE call.res
           /\ validateCall' = [self |-> t, ret |-> call.ret, ran |-> call.ran,
                               dirty |-> OutResult.ValidationErrors # <<>>]
    /\ lastOp' = "ValidateTemplate"
    /\ UNCHANGED <<templates, chainCall, history, edits, config, applyCall, cloneCall, message, toolCall>>

Next ==
    \/ \E t \in Templates, p \in Templates \cup {Null} : EditParentTemplate(t, p)
    \/ \E t \in Templates : CallGetInheritanceChain(t)

Spec == Init /\ [][Next]_vars

----------------------------------------------------------------------------
(* Templates handed to validation *)

\* longest ability list of a validated template
MaxAbilities == 2

\* an ability: named or not, with or without a resolvable ability class
AbilityDefinitions ==
    [AbilityName : {NAME_None, "BasicAttack"}, AbilityClass : {Null, Asset}]

AbilityLists == UNION {[1..n -> AbilityDefinitions] : n \in 0..MaxAbilities}

\* a template as loaded from an asset: constructed, then its properties set
LoadedTemplate(name, display, parent, visuals, ai, abilities) ==
    [UEnemyTemplate EXCEPT !.TemplateName = name,
                           !.DisplayName = display,
                           !.ParentTemplate = parent,
                           !.VisualCustomization = visuals,
                           !.AIConfig = ai,
                           !.Abilities = abilities]

VisualInputs == [SkeletalMesh : {Null, Asset}, AnimationBlueprint : {Null, Asset}]

AIInputs == [BehaviorTree : {Null, Asset}, Blackboard : {Null, Asset}]

\* a few ancestors: complete, complete with warnings only, freshly constructed,
\* unnamed with two abilities in error
ParentProfiles ==
    LET complete == [SkeletalMesh |-> Asset, AnimationBlueprint |-> Asset]
        bare == [SkeletalMesh |-> Asset, AnimationBlueprint |-> Null]
        ai == [BehaviorTree |-> Asset, Blackboard |-> Asset]
        attack == [AbilityName |-> "BasicAttack", AbilityClass |-> Asset]
    IN  { LoadedTemplate("Brute", "Brute", Null, complete, ai, <<attack>>),
          LoadedTemplate("Brute", EmptyText, Null, bare, ai, <<>>),
          UEnemyTemplate,
          LoadedTemplate(NAME_None, "Brute", Null, complete, ai,
                         << [attack EXCEPT !.AbilityClass = Null],
                            [attack EXCEPT !.AbilityName = NAME_None] >>) }

\* the parents of template 1: a complete one and a freshly constructed one
LocalParents ==
    { LoadedTemplate("Brute", "Brute", Null,
                     [SkeletalMesh |-> Asset, AnimationBlueprint |-> Asset],
                     [BehaviorTree |-> Asset, Blackboard |-> Asset], <<>>),
      UEnemyTemplate }

\* template 1 takes every combination of its validated properties, with no
\* parent or with template 2 as parent; template 2 is one of the profiles
InitLocal ==
    \E name \in {NAME_None, "Grunt"}, display \in {EmptyText, "Grunt"},
       parent \in {Null, 2}, visuals \in VisualInputs, ai \in AIInputs,
       abilities \in AbilityLists, profile \in LocalParents :
        templates = [t \in Templates |->
                        IF t = 1
                        THEN LoadedTemplate(name, display, parent, visuals, ai, abilities)
                        ELSE IF t = 2 THEN profile ELSE UEnemyTemplate]

\* every template is one of the profiles; its parent is absent, itself or the
\* next template (the last one's next is the first)
InitCascade ==
    \E profile \in [Templates -> ParentProfiles],
       parent \in [Templates -> Templates \cup {Null}] :
        /\ \A t \in Templates : parent[t] \in {Null, t, (t % NumTemplates) + 1}
        /\ templates = [t \in Templates |->
                           [profile[t] EXCEPT !.ParentTemplate = parent[t]]]

InitValidate ==
    /\ InitLocal \/ InitCascade
    /\ OutResult = FEnemyTemplateValidationResult
    /\ lastOp = "Load"
    /\ chainCall = NoChainCall
    /\ validateCall = NoValidateCall
    /\ history = [t \in Templates |-> "never"]
    /\ crashed = FALSE
    /\ edits = 0
    /\ NothingElse

NextValidate ==
    \E t \in Templates : CallValidateTemplate(t)

SpecValidate == InitValidate /\ [][NextValidate]_vars

----------------------------------------------------------------------------
(* Templates and modifications handed to ApplyToInstance *)

\* most entries of a StatMultipliers or ModifiedAbilities map
MaxModifications == 2

\* the maps of at most MaxModifications entries, in insertion order
Maps(Entries) ==
    UNION { {m \in [1..n -> Entries] :
                 \A i, j \in 1..n : i # j => m[i].Key # m[j].Key}
            : n \in 0..MaxModifications }

\* multipliers of two stat fields and of a name that is no stat field
StatMultiplierMaps == Maps([Key : {"Health", "Damage", "Mana"}, Value : {-1, 0, 2}])

\* the abilities of an applied template
AppliedAbilityLists ==
    UNION { [1..n -> [AbilityName : {"BasicAttack", "Fireball"}, AbilityClass : {Asset}]]
            : n \in 0..MaxAbilities }

\* overrides keyed by an ability name or by the none name; the override has
\* another class than the template's ability, or none
AbilityOverrideMaps ==
    Maps({ [Key |-> k, Value |-> [AbilityName |-> k, AbilityClass |-> c]]
           : k \in {NAME_None, "BasicAttack", "Fireball"}, c \in {Null, OtherAsset} })

\* a complete template
CompleteTemplate ==
    LoadedTemplate("Grunt", "Grunt", Null,
                   [SkeletalMesh |-> Asset, AnimationBlueprint |-> Asset],
                   [BehaviorTree |-> Asset, Blackboard |-> Asset],
                   << [AbilityName |-> "BasicAttack", AbilityClass |-> Asset] >>)

\* the configuration varies in its stat multipliers, the template in its stats
InitApplyStats ==
    \E multipliers \in StatMultiplierMaps, health \in {100, 150} :
        /\ templates = [t \in Templates |->
                           IF t = 1
                           THEN [CompleteTemplate EXCEPT !.BaseStats.Health = health]
                           ELSE UEnemyTemplate]
        /\ config = [BaseTemplate |-> 1,
                     Modifications |->
                         [FEnemyTemplateModification EXCEPT
                              !.StatMultipliers = multipliers,
                              !.AIModifications = CompleteTemplate.AIConfig,
                              !.VisualModifications = CompleteTemplate.VisualCustomization]]

\* the visuals and the AI config vary in the template and in the modification
InitApplyVisuals ==
    \E visuals \in {FEnemyVisualCustomization, CompleteTemplate.VisualCustomization},
       ai \in {FEnemyAIConfig, CompleteTemplate.AIConfig},
       visualMods \in [SkeletalMesh : {Null, OtherAsset},
                       AnimationBlueprint : {Null, OtherAsset}],
       aiMods \in [BehaviorTree : {Null, OtherAsset}, Blackboard : {Null, OtherAsset}] :
        /\ templates = [t \in Templates |->
                           IF t = 1
                           THEN [CompleteTemplate EXCEPT !.VisualCustomization = visuals,
                                                         !.AIConfig = ai]
                           ELSE UEnemyTemplate]
        /\ config = [BaseTemplate |-> 1,
                     Modifications |->
                         [FEnemyTemplateModification EXCEPT
                              !.AIModifications = aiMods,
                              !.VisualModifications = visualMods]]

\* the abilities vary in the template, the overrides in the modification
InitApplyAbilities ==
    \E abilities \in AppliedAbilityLists, overrides \in AbilityOverrideMaps :
        /\ templates = [t \in Templates |->
                           IF t = 1
                           THEN [CompleteTemplate EXCEPT !.Abilities = abilities]
                           ELSE UEnemyTemplate]
        /\ config = [BaseTemplate |-> 1,
                     Modifications |->
                         [FEnemyTemplateModification EXCEPT
                              !.ModifiedAbilities = overrides,
                              !.AIModifications = CompleteTemplate.AIConfig,
                              !.VisualModifications = CompleteTemplate.VisualCustomization]]

InitApply ==
    /\ InitApplyStats \/ InitApplyVisuals \/ InitApplyAbilities
    /\ OutResult = FEnemyTemplateValidationResult
    /\ lastOp = "Load"
    /\ chainCall = NoChainCall
    /\ validateCall = NoValidateCall
    /\ history = [t \in Templates |-> "never"]
    /\ crashed = FALSE
    /\ edits = 0
    /\ applyCall = NoApplyCall
    /\ cloneCall = NoCloneCall
    /\ message = NoMessage
    /\ toolCall = NoToolCall

\* a caller applies template t to an enemy instance, with or without a
\* modification
CallApplyToInstance(t, EnemyInstance, Modification) ==
    /\ ~crashed
    /\ applyCall' = [self |-> t, EnemyInstance |-> EnemyInstance,
                     Modification |-> Modification,
                     out |-> ApplyToInstance(templates[t], EnemyInstance, Modification)]
    /\ lastOp' = "ApplyToInstance"
    /\ UNCHANGED <<templates, OutResult, chainCall, validateCall, history, crashed, edits,
                   config, cloneCall, message, toolCall>>

NextApply ==
    \E EnemyInstance \in {Null, PlainCharacter, CharacterWithAbilities},
       Modification \in {NullModification, PointerTo(config.Modifications)} :
        CallApplyToInstance(1, EnemyInstance, Modification)

SpecApply == InitApply /\ [][NextApply]_vars

----------------------------------------------------------------------------
(* Configurations handed to ValidateConfiguration *)

\* base templates: passing, passing with warnings, in error, its own parent
BaseTemplateInputs ==
    { CompleteTemplate,
      [CompleteTemplate EXCEPT !.DisplayName = EmptyText,
                               !.VisualCustomization.AnimationBlueprint = Null],
      [CompleteTemplate EXCEPT !.TemplateName = NAME_None,
                               !.DisplayName = EmptyText,
                               !.AIConfig.Blackboard = Null],
      [CompleteTemplate EXCEPT !.ParentTemplate = 1] }

\* overrides keyed by the template's ability, by an ability it has not, or by
\* the none name
ModifiedAbilityInputs ==
    Maps({ [Key |-> k, Value |-> [AbilityName |-> k, AbilityClass |-> OtherAsset]]
           : k \in {NAME_None, "BasicAttack", "Fireball"} })

\* a result object that holds the messages of an earlier validation
UsedResult ==
    AddWarning(AddError(FEnemyTemplateValidationResult, Text("NoTemplateName", <<>>)),
               Text("NoDisplayName", <<>>))

InitConfig ==
    /\ \E base \in BaseTemplateInputs, pointer \in {Null, Unresolved, 1},
          multipliers \in StatMultiplierMaps, overrides \in ModifiedAbilityInputs :
           /\ templates = [t \in Templates |-> IF t = 1 THEN base ELSE UEnemyTemplate]
           /\ config = [BaseTemplate |-> pointer,
                        Modifications |->
                            [FEnemyTemplateModification EXCEPT
                                 !.StatMultipliers = multipliers,
                                 !.ModifiedAbilities = overrides,
                                 !.AIModifications = base.AIConfig,
                                 !.VisualModifications = base.VisualCustomization]]
    /\ OutResult \in {FEnemyTemplateValidationResult, UsedResult}
    /\ lastOp = "Load"
    /\ chainCall = NoChainCall
    /\ validateCall = NoValidateCall
    /\ history = [t \in Templates |-> "never"]
    /\ crashed = FALSE
    /\ edits = 0
    /\ applyCall = NoApplyCall
    /\ cloneCall = NoCloneCall
    /\ message = NoMessage
    /\ toolCall = NoToolCall

\* a caller validates the configuration into its result object
CallValidateConfiguration ==
    /\ ~crashed
    /\ LET call == ValidateConfiguration(templates, config, OutResult)
       IN  /\ crashed' = call.fault
           /\ OutResult' = IF call.fault THEN OutResult ELSE call.res
           /\ validateCall' = [self |-> Get(templates, config.BaseTemplate),
                               ret |-> call.ret, ran |-> <<>>,
                               dirty |-> OutResult.ValidationErrors # <<>>]
    /\ lastOp' = "ValidateConfiguration"
    /\ UNCHANGED <<templates, chainCall, history, edits, config, applyCall, cloneCall, message, toolCall>>

NextConfig == CallValidateConfiguration

SpecConfig == InitConfig /\ [][NextConfig]_vars

----------------------------------------------------------------------------
(* Cloning and editing templates *)

\* the first template: freshly constructed, complete, or complete with a
\* description, tags and stats of its own
RootTemplates ==
    { UEnemyTemplate,
      CompleteTemplate,
      [CompleteTemplate EXCEPT !.Description = "Foot soldier",
                               !.TemplateTags = {"Enemy.Melee"},
                               !.BaseStats.Damage = 25,
                               !.Abilities = <<>>] }

InitClone ==
    /\ \E root \in RootTemplates : templates = <<root>>
    /\ OutResult = FEnemyTemplateValidationResult
    /\ lastOp = "Load"
    /\ chainCall = NoChainCall
    /\ validateCall = NoValidateCall
    /\ history = [t \in Templates |-> "never"]
    /\ crashed = FALSE
    /\ edits = 0
    /\ NothingElse

\* a caller clones template t under a new name, while there is room for
\* another template
CallCreateChildTemplate(t, NewTemplateName) ==
    /\ ~crashed
    /\ Len(templates) < NumTemplates
    /\ LET call == CreateChildTemplate(templates, t, NewTemplateName)
       IN  /\ templates' = call.tpl
           /\ cloneCall' = [self |-> t, child |-> call.child, name |-> NewTemplateName,
                            before |-> templates[t]]
    /\ lastOp' = "CreateChildTemplate"
    /\ UNCHANGED <<OutResult, chainCall, validateCall, history, crashed, edits,
                   config, applyCall, message, toolCall>>

\* the BaseStats property of t is edited (EditAnywhere)
EditBaseStats(t, health) ==
    /\ ~crashed
    /\ edits < MaxEdits
    /\ templates[t].BaseStats.Health # health
    /\ edits' = edits + 1
    /\ templates' = [templates EXCEPT ![t].BaseStats.Health = health]
    /\ lastOp' = "EditBaseStats"
    /\ UNCHANGED <<OutResult, chainCall, validateCall, history, crashed,
                   config, applyCall, cloneCall, message, toolCall>>

\* the Abilities property of t is edited (EditAnywhere)
EditAbilities(t, abilities) ==
    /\ ~crashed
    /\ edits < MaxEdits
    /\ templates[t].Abilities # abilities
    /\ edits' = edits + 1
    /\ templates' = [templates EXCEPT ![t].Abilities = abilities]
    /\ lastOp' = "EditAbilities"
    /\ UNCHANGED <<OutResult, chainCall, validateCall, history, crashed,
                   config, applyCall, cloneCall, message, toolCall>>

NextClone ==
    \/ \E t \in DOMAIN templates, name \in {NAME_None, "Brute", "Archer"} :
           CallCreateChildTemplate(t, name)
    \/ \E t \in DOMAIN templates, health \in {100, 150} : EditBaseStats(t, health)
    \/ \E t \in DOMAIN templates, abilities \in {<<>>, CompleteTemplate.Abilities} :
           EditAbilities(t, abilities)

SpecClone == InitClone /\ [][NextClone]_vars

\* templates are only cloned and asked for their inheritance chain
NextLineage ==
    \/ \E t \in DOMAIN templates, name \in {"Brute", "Archer"} :
           CallCreateChildTemplate(t, name)
    \/ \E t \in DOMAIN templates : CallGetInheritanceChain(t)

SpecLineage == InitClone /\ [][NextLineage]_vars

----------------------------------------------------------------------------
(* A validation result used on its own *)

\* most entries of each message list of the result
MaxMessages == 3

\* the messages handed to AddError and AddWarning
Messages == {Text("NoTemplateName", <<>>), Text("NoAnimBP", <<>>)}

\* a freshly constructed result, nothing else in use
InitResult ==
    /\ templates = [t \in Templates |-> UEnemyTemplate]
    /\ OutResult = FEnemyTemplateValidationResult
    /\ lastOp = "Construct"
    /\ chainCall = NoChainCall
    /\ validateCall = NoValidateCall
    /\ history = [t \in Templates |-> "never"]
    /\ crashed = FALSE
    /\ edits = 0
    /\ NothingElse

CallClear ==
    /\ OutResult' = Clear(OutResult)
    /\ lastOp' = "Clear"
    /\ UNCHANGED <<templates, chainCall, validateCall, history, crashed, edits,
                   config, applyCall, cloneCall, message, toolCall>>

CallAddError(Error) ==
    /\ Len(OutResult.ValidationErrors) < MaxMessages
    /\ OutResult' = AddError(OutResult, Error)
    /\ message' = Error
    /\ lastOp' = "AddError"
    /\ UNCHANGED <<templates, chainCall, validateCall, history, crashed, edits,
                   config, applyCall, cloneCall, toolCall>>

CallAddWarning(Warning) ==
    /\ Len(OutResult.ValidationWarnings) < MaxMessages
    /\ OutResult' = AddWarning(OutResult, Warning)
    /\ message' = Warning
    /\ lastOp' = "AddWarning"
    /\ UNCHANGED <<templates, chainCall, validateCall, history, crashed, edits,
                   config, applyCall, cloneCall, toolCall>>

NextResult ==
    \/ CallClear
    \/ \E Error \in Messages : CallAddError(Error)
    \/ \E Warning \in Messages : CallAddWarning(Warning)

SpecResult == InitResult /\ [][NextResult]_vars

----------------------------------------------------------------------------
(* A configuration in use: initialised, created, applied *)

\* configurations that hold modifications from earlier use
UsedModifications ==
    { FEnemyTemplateModification,
      [FEnemyTemplateModification EXCEPT
           !.StatMultipliers = <<[Key |-> "Damage", Value |-> 2]>>,
           !.ModifiedAbilities =
               <<[Key |-> "BasicAttack",
                  Value |-> [AbilityName |-> "BasicAttack", AbilityClass |-> OtherAsset]]>>,
           !.VisualModifications = [SkeletalMesh |-> OtherAsset,
                                    AnimationBlueprint |-> Null]],
      [FEnemyTemplateModification EXCEPT
           !.StatMultipliers = <<[Key |-> "Health", Value |-> 0]>>,
           !.ModifiedAbilities =
               <<[Key |-> "Fireball",
                  Value |-> [AbilityName |-> "Fireball", AbilityClass |-> OtherAsset]]>>,
           !.AdditionalTags = {"Enemy.Elite"}] }

InitUse ==
    /\ \E base \in BaseTemplateInputs : 
           templates = [t \in Templates |-> IF t = 1 THEN base ELSE UEnemyTemplate]
    /\ \E pointer \in {Null, Unresolved, 1}, used \in UsedModifications :
           config = [BaseTemplate |-> pointer, Modifications |-> used]
    /\ OutResult = FEnemyTemplateValidationResult
    /\ lastOp = "Load"
    /\ chainCall = NoChainCall
    /\ validateCall = NoValidateCall
    /\ history = [t \in Templates |-> "never"]
    /\ crashed = FALSE
    /\ edits = 0
    /\ applyCall = NoApplyCall
    /\ cloneCall = NoCloneCall
    /\ message = NoMessage
    /\ toolCall = NoToolCall

CallInitializeFromTemplate(Template) ==
    /\ config' = InitializeFromTemplate(templates, config, Template)
    /\ toolCall' = [ret |-> Null, arg |-> Template, before |-> config,
                    created |-> UEnemyTemplate]
    /\ lastOp' = "InitializeFromTemplate"
    /\ UNCHANGED <<templates, OutResult, chainCall, validateCall, history, crashed, edits,
                   applyCall, cloneCall, message>>

CallApplyConfiguration(Enemy) ==
    /\ applyCall' = [self |-> Get(templates, config.BaseTemplate),
                     EnemyInstance |-> Enemy,
                     Modification |-> PointerTo(config.Modifications),
                     out |-> ApplyConfiguration(templates, config, Enemy)]
    /\ lastOp' = "ApplyConfiguration"
    /\ UNCHANGED <<templates, OutResult, chainCall, validateCall, history, crashed, edits,
                   config, cloneCall, message, toolCall>>

\* the tool creates a configuration over BaseTemplate and shows it on its
\* preview actor
CallCreateEnemyConfiguration(BaseTemplate, PreviewActor) ==
    /\ LET call == CreateEnemyConfiguration(templates, config, BaseTemplate, PreviewActor)
       IN  /\ config' = call.config
           /\ toolCall' = [ret |-> call.ret, arg |-> BaseTemplate, before |-> config,
                           created |-> UEnemyTemplate]
           /\ applyCall' = IF call.ret = Null
                           THEN applyCall
                           ELSE [self |-> BaseTemplate, EnemyInstance |-> PreviewActor,
                                 Modification |-> PointerTo(call.config.Modifications),
                                 out |-> call.preview]
    /\ lastOp' = "CreateEnemyConfiguration"
    /\ UNCHANGED <<templates, OutResult, chainCall, validateCall, history, crashed, edits,
                   cloneCall, message>>

NextUse ==
    \/ \E Template \in {Null, 1} : CallInitializeFromTemplate(Template)
    \/ \E Enemy \in {Null, PlainCharacter, CharacterWithAbilities} :
           CallApplyConfiguration(Enemy)
    \/ \E EnemyInstance \in {Null, PlainCharacter, CharacterWithAbilities},
          Modification \in {NullModification, PointerTo(config.Modifications)} :
           CallApplyToInstance(1, EnemyInstance, Modification)
    \/ \E BaseTemplate \in {Null, 1},
          PreviewActor \in {Null, PlainCharacter, CharacterWithAbilities} :
           CallCreateEnemyConfiguration(BaseTemplate, PreviewActor)

SpecUse == InitUse /\ [][NextUse]_vars

----------------------------------------------------------------------------
(* EnemyCreatorTool.cpp : new templates *)

\* the enemy types a template is created for
EnemyTypes == {"Melee", "Boss"}

\* FName(*TemplateName) : the empty string and "None" both name NAME_None
FName(String) == IF String = "" THEN NAME_None ELSE String

\* FText::FromString
FromString(String) == IF String = "" THEN EmptyText ELSE String

\* UEnum::GetValueAsString
GetValueAsString(EnemyType) == "EEnemyType::" \o EnemyType

\* the stats InitializeTemplateDefaults sets, in the units of FEnemyBaseStats
DefaultStats(EnemyType) ==
    IF EnemyType = "Melee"
    THEN [Health |-> 100, Damage |-> 25, Speed |-> 400, AttackSpeed |-> 10, Defense |-> 15,
          CriticalChance |-> 5, CriticalMultiplier |-> 20]
    ELSE [Health |-> 500, Damage |-> 50, Speed |-> 350, AttackSpeed |-> 7, Defense |-> 40,
          CriticalChance |-> 20, CriticalMultiplier |-> 30]

\* the names of the abilities LoadDefaultAbilities adds, in order
DefaultAbilityNames(EnemyType) ==
    <<"BasicAttack">> \o (IF EnemyType = "Melee" THEN <<"Charge", "Cleave">>
                                                 ELSE <<"Phase1", "Phase2">>)

\* what the asset loads of one call give: whether the mesh, the animation
\* blueprint and the behavior tree load, and the abilities whose class loads
AssetLoads(EnemyType) ==
    [SkeletalMesh : BOOLEAN, AnimationBlueprint : BOOLEAN, BehaviorTree : BOOLEAN,
     AbilityClasses : SUBSET {DefaultAbilityNames(EnemyType)[i] : i \in 1..3}]

\* Abilities.Empty(), the common ability, the abilities of the type, then the
\* class of each where it loads
LoadDefaultAbilities(T, EnemyType, Loads) ==
    LET Names == DefaultAbilityNames(EnemyType)
    IN  [T EXCEPT !.Abilities =
            [i \in 1..Len(Names) |->
                [AbilityName |-> Names[i],
                 AbilityClass |-> IF Names[i] \in Loads.AbilityClasses
                                  THEN Asset ELSE Null]]]

\* each asset is set where its load succeeds and left alone where it fails;
\* no blackboard is loaded
LoadDefaultAssets(T, EnemyType, Loads) ==
    LET visuals == [T.VisualCustomization EXCEPT
                        !.SkeletalMesh = IF Loads.SkeletalMesh THEN Asset ELSE @,
                        !.AnimationBlueprint = IF Loads.AnimationBlueprint THEN Asset ELSE @]
        ai == [T.AIConfig EXCEPT
                        !.BehaviorTree = IF Loads.BehaviorTree THEN Asset ELSE @]
    IN  LoadDefaultAbilities([T EXCEPT !.VisualCustomization = visuals, !.AIConfig = ai],
                             EnemyType, Loads)

\* stats and tag of the type, then the default assets (the AI tuning values
\* and the scale are not read by any check and are left out)
InitializeTemplateDefaults(T, EnemyType, Loads) ==
    LoadDefaultAssets(
        [T EXCEPT !.BaseStats = DefaultStats(EnemyType),
                  !.TemplateTags = @ \cup {"Enemy.Type." \o GetValueAsString(EnemyType)}],
        EnemyType, Loads)

\* the new object, validated on a fresh result; the template is returned
\* only if ValidateTemplate returns true
CreateNewEnemyTemplate(tpl, TemplateName, EnemyType, Loads) ==
    LET NewTemplate == Len(tpl) + 1
        T == InitializeTemplateDefaults(
                 [UEnemyTemplate EXCEPT !.TemplateName = FName(TemplateName),
                                        !.DisplayName = FromString(TemplateName)],
                 EnemyType, Loads)
        ValidationResult == ValidateTemplate(Append(tpl, T), NewTemplate,
                                             FEnemyTemplateValidationResult, {})
    IN  [ret |-> IF ValidationResult.ret THEN NewTemplate ELSE Null,
         created |-> T,
         res |-> ValidationResult.res]

\* no template loaded, nothing called yet
InitTool ==
    /\ templates = <<>>
    /\ OutResult = FEnemyTemplateValidationResult
    /\ lastOp = "Startup"
    /\ chainCall = NoChainCall
    /\ validateCall = NoValidateCall
    /\ history = [t \in Templates |-> "never"]
    /\ crashed = FALSE
    /\ edits = 0
    /\ NothingElse

CallCreateNewEnemyTemplate(TemplateName, EnemyType, Loads) ==
    /\ Len(templates) < NumTemplates
    /\ LET call == CreateNewEnemyTemplate(templates, TemplateName, EnemyType, Loads)
       IN  /\ templates' = IF call.ret = Null THEN templates
                                              ELSE Append(templates, call.created)
           /\ toolCall' = [ret |-> call.ret, arg |-> Null, before |-> config,
                           created |-> call.created]
           /\ OutResult' = call.res
    /\ lastOp' = "CreateNewEnemyTemplate"
    /\ UNCHANGED <<chainCall, validateCall, history, crashed, edits, config, applyCall,
                   cloneCall, message>>

NextTool ==
    \E TemplateName \in {"", "None", "Grunt"}, EnemyType \in EnemyTypes :
        \E Loads \in AssetLoads(EnemyType) :
            CallCreateNewEnemyTemplate(TemplateName, EnemyType, Loads)

SpecTool == InitTool /\ [][NextTool]_vars

----------------------------------------------------------------------------
(* Properties of the inheritance chain *)

ParentOf(t) == templates[t].ParentTemplate

Elements(seq) == {seq[i] : i \in 1..Len(seq)}

NoDuplicates(seq) == \A i, j \in 1..Len(seq) : i # j => seq[i] # seq[j]

\* the templates reached from t along parent references, t included
ReachableFrom(t) ==
    LET within[k \in 0..NumTemplates] ==
            IF k = 0
            THEN {t}
            ELSE within[k - 1] \cup ({ParentOf(u) : u \in within[k - 1]} \ {Null})
    IN  within[NumTemplates]

\* chain starts at t, follows the parent references as they are now, and ends
\* at a root or where the next parent is already in it
FollowsParents(chain, t) ==
    /\ Len(chain) >= 1
    /\ chain[1] = t
    /\ \A i \in 1..(Len(chain) - 1) : chain[i + 1] = ParentOf(chain[i])
    /\ \/ ParentOf(chain[Len(chain)]) = Null
       \/ ParentOf(chain[Len(chain)]) \in Elements(chain)

AfterGetInheritanceChain == lastOp = "GetInheritanceChain"

\* C1: GetInheritanceChain(T) runs at most N loop iterations, N the number of
\* templates reachable from T, and returns a chain that holds each template at
\* most once, whatever the parent graph (self parent, cycle, chain into a cycle).
C1_ChainBoundedAndDistinct ==
    AfterGetInheritanceChain =>
        /\ chainCall.iters <= Cardinality(ReachableFrom(chainCall.self))
        /\ NoDuplicates(chainCall.chain)

\* the walk ran from a start that leads into a cycle it is not part of
C1_Witness ==
    /\ AfterGetInheritanceChain
    /\ chainCall.iters = Len(chainCall.chain)
    /\ Len(chainCall.chain) >= 2
    /\ ParentOf(chainCall.chain[Len(chainCall.chain)]) \in Elements(chainCall.chain)
    /\ ParentOf(chainCall.chain[Len(chainCall.chain)]) # chainCall.self

\* C2: the first GetInheritanceChain(T) call returns a chain that starts with T,
\* in which every later element is the parent of the one before, and whose last
\* element is a root or has its parent in the chain; for a parentless T it is <<T>>.
C2_FirstChainFollowsParents ==
    (AfterGetInheritanceChain /\ chainCall.before = "never") =>
        /\ FollowsParents(chainCall.chain, chainCall.self)
        /\ ParentOf(chainCall.self) = Null => chainCall.chain = <<chainCall.self>>

\* a first call that returned a chain of three templates ending at a root
C2_Witness ==
    /\ AfterGetInheritanceChain
    /\ chainCall.before = "never"
    /\ Len(chainCall.chain) = 3
    /\ ParentOf(chainCall.chain[3]) = Null

\* C3: when T's parent reference was changed after a GetInheritanceChain(T)
\* call, the next GetInheritanceChain(T) returns the chain that follows the new
\* parent, not the chain cached before the change.
C3_ChainFollowsEditedParent ==
    (AfterGetInheritanceChain /\ chainCall.before = "edited") =>
        FollowsParents(chainCall.chain, chainCall.self)

----------------------------------------------------------------------------
(* Properties of template validation *)

\* ValidateTemplate was the last call and it returned to its caller
Returned == lastOp = "ValidateTemplate" /\ ~crashed

Validated == templates[validateCall.self]

Errors == OutResult.ValidationErrors

Last(seq) == seq[Len(seq)]

\* following the parent references from t ends at a root
RECURSIVE NthParent(_, _)
NthParent(t, k) == IF t = Null \/ k = 0 THEN t ELSE NthParent(ParentOf(t), k - 1)

Acyclic(t) == NthParent(t, NumTemplates) = Null

\* a validation of t alone, started on a fresh result
Alone(t) == ValidateTemplate(templates, t, FEnemyTemplateValidationResult, {})

NameErrors(t) ==
    IF templates[t].TemplateName = NAME_None
    THEN <<Text("NoTemplateName", <<>>)>>
    ELSE <<>>

\* what a failed parent contributes: the wrapping error naming it, then its errors
ParentErrors(t) ==
    IF ParentOf(t) # Null /\ ~Alone(ParentOf(t)).ret
    THEN <<Text("InvalidParentTemplate", <<templates[ParentOf(t)].TemplateName>>)>>
         \o Alone(ParentOf(t)).res.ValidationErrors
    ELSE <<>>

\* the errors recorded before the template's own visual, AI and ability checks
ErrorsBeforeChecks(t) == NameErrors(t) \o ParentErrors(t)

AllChecks == <<"ValidateVisualAssets", "ValidateAIConfiguration", "ValidateAbilities">>

\* C4: ValidateTemplate(T) returns a ValidationResult for every template T, also
\* when T's parent chain is self-referential or loops.
C4_ValidateTemplateAlwaysReturns ==
    lastOp = "ValidateTemplate" => ~crashed

\* C5 as claimed: without a skeletal mesh the error list is exactly the single
\* "Skeletal mesh is required" error and neither the AI nor the ability check runs.
C5_OnlyTheMeshError ==
    (Returned /\ Validated.VisualCustomization.SkeletalMesh = Null) =>
        /\ ~validateCall.ret
        /\ ~OutResult.bIsValid
        /\ Errors = <<Text("NoSkeletalMesh", <<>>)>>
        /\ validateCall.ran = <<"ValidateVisualAssets">>

\* C5 amended: without a skeletal mesh the returned result is invalid, the
\* "Skeletal mesh is required" error is the last error, before it stand only the
\* missing-name error and a failed parent's errors, and neither the AI nor the
\* ability check runs.
C5_MeshErrorEndsValidation ==
    (Returned /\ Validated.VisualCustomization.SkeletalMesh = Null) =>
        /\ ~validateCall.ret
        /\ ~OutResult.bIsValid
        /\ Errors = ErrorsBeforeChecks(validateCall.self)
                        \o <<Text("NoSkeletalMesh", <<>>)>>
        /\ validateCall.ran = <<"ValidateVisualAssets">>

\* a meshless template that also lacks a name, AI assets and has an ability in error
C5_Witness ==
    /\ Returned
    /\ Validated.VisualCustomization.SkeletalMesh = Null
    /\ Validated.TemplateName = NAME_None
    /\ Validated.AIConfig.BehaviorTree = Null
    /\ Len(Validated.Abilities) >= 1
    /\ Validated.Abilities[1].AbilityClass = Null
    /\ Len(Errors) = 2

\* C6: for a template with an acyclic parent chain, ValidateTemplate returns,
\* its return value equals OutResult.bIsValid, and both are true exactly when
\* OutResult.ValidationErrors is empty, on every exit path.
C6_ReturnValueIsValidity ==
    (lastOp = "ValidateTemplate" /\ Acyclic(validateCall.self)) =>
        /\ ~crashed
        /\ validateCall.ret = OutResult.bIsValid
        /\ OutResult.bIsValid <=> (Errors = <<>>)

\* the early return taken after the ability check, with a failed parent
C6_Witness ==
    /\ Returned
    /\ validateCall.ran = AllChecks
    /\ ~validateCall.ret
    /\ ParentErrors(validateCall.self) # <<>>
    /\ Len(Errors) > Len(ErrorsBeforeChecks(validateCall.self))

\* results a caller may pass in: fresh, the one left by the last call, and one
\* holding messages under a valid flag
PriorResults ==
    { FEnemyTemplateValidationResult,
      OutResult,
      [bIsValid |-> TRUE,
       ValidationErrors |-> <<Text("NoBlackboard", <<>>), Text("NoTemplateName", <<>>)>>,
       ValidationWarnings |-> <<Text("NoAnimBP", <<>>)>>] }

\* C7: any two ValidateTemplate calls on an unmodified template give the same
\* ordered errors, the same ordered warnings and the same validity, whatever
\* the OutResult passed in held before the call.
C7_ValidationIgnoresPriorResult ==
    Returned =>
        \A R \in PriorResults :
            LET again == ValidateTemplate(templates, validateCall.self, R, {})
            IN  /\ again.res = OutResult
                /\ again.ret = validateCall.ret

\* a call made on a result that held the errors of an earlier validation, and
\* that itself leaves errors and warnings
C7_Witness ==
    /\ Returned
    /\ validateCall.dirty
    /\ Errors # <<>>
    /\ OutResult.ValidationWarnings # <<>>

\* C8: when the parent fails validation, the child's errors are its name error
\* (if any), one wrapping error naming the parent, the parent's errors in the
\* parent's order, and then the errors of the child's own visual, AI and ability
\* checks, which run as they do without a parent; a template is valid only if
\* every template on its parent chain is valid.
C8_ParentErrorsCascade ==
    (Returned /\ ParentOf(validateCall.self) # Null) =>
        LET self == validateCall.self
            parent == Alone(ParentOf(self))
            detached == ValidateTemplate(
                            [templates EXCEPT ![self].ParentTemplate = Null],
                            self, FEnemyTemplateValidationResult, {})
            own == SubSeq(detached.res.ValidationErrors,
                          Len(NameErrors(self)) + 1,
                          Len(detached.res.ValidationErrors))
        IN  /\ ~parent.ret =>
                /\ Errors = NameErrors(self)
                              \o <<Text("InvalidParentTemplate",
                                        <<templates[ParentOf(self)].TemplateName>>)>>
                              \o parent.res.ValidationErrors
                              \o own
                /\ validateCall.ran = detached.ran
                /\ ~validateCall.ret
            /\ validateCall.ret =>
                \A u \in ReachableFrom(self) : Alone(u).ret

\* a child that passes its own visual and AI checks under a parent that failed
\* with several errors, one of them its own parent's
C8_Witness ==
    /\ Returned
    /\ ParentOf(validateCall.self) # Null
    /\ ~Alone(ParentOf(validateCall.self)).ret
    /\ ParentErrors(ParentOf(validateCall.self)) # <<>>
    /\ validateCall.ran = AllChecks

\* C9 as claimed: with a mesh, a missing behavior tree and a missing blackboard
\* are each reported as an error, validation returns invalid and the ability
\* check is not run.
C9_EachMissingAIAssetReported ==
    (Returned /\ Validated.VisualCustomization.SkeletalMesh # Null) =>
        /\ Validated.AIConfig.BehaviorTree = Null =>
               Contains(Errors, Text("NoBehaviorTree", <<>>))
        /\ Validated.AIConfig.Blackboard = Null =>
               Contains(Errors, Text("NoBlackboard", <<>>))
        /\ (Validated.AIConfig.BehaviorTree = Null \/ Validated.AIConfig.Blackboard = Null) =>
               /\ ~validateCall.ret
               /\ validateCall.ran = <<"ValidateVisualAssets", "ValidateAIConfiguration">>

\* C9 amended: with a mesh, a missing behavior tree is reported as an error, and
\* a missing blackboard is reported as an error when the behavior tree is
\* present; that error is the last one recorded, validation returns invalid and
\* the ability check is not run.
C9_FirstMissingAIAssetReported ==
    (/\ Returned
     /\ Validated.VisualCustomization.SkeletalMesh # Null
     /\ (Validated.AIConfig.BehaviorTree = Null \/ Validated.AIConfig.Blackboard = Null)) =>
        /\ Errors = ErrorsBeforeChecks(validateCall.self)
                        \o << IF Validated.AIConfig.BehaviorTree = Null
                              THEN Text("NoBehaviorTree", <<>>)
                              ELSE Text("NoBlackboard", <<>>) >>
        /\ ~validateCall.ret
        /\ ~OutResult.bIsValid
        /\ validateCall.ran = <<"ValidateVisualAssets", "ValidateAIConfiguration">>

\* a template with a mesh, neither AI asset and an ability in error
C9_Witness ==
    /\ Returned
    /\ Validated.VisualCustomization.SkeletalMesh # Null
    /\ Validated.AIConfig.BehaviorTree = Null
    /\ Validated.AIConfig.Blackboard = Null
    /\ Len(Validated.Abilities) >= 1
    /\ Validated.Abilities[1].AbilityName = NAME_None

\* the error keys the ability check is to record for the abilities from i on
RECURSIVE AbilityErrorKeys(_, _)
AbilityErrorKeys(Abilities, i) ==
    IF i > Len(Abilities)
    THEN <<>>
    ELSE (IF Abilities[i].AbilityName = NAME_None THEN <<"NoAbilityName">> ELSE <<>>)
         \o (IF Abilities[i].AbilityClass = Null THEN <<"NoAbilityClass">> ELSE <<>>)
         \o AbilityErrorKeys(Abilities, i + 1)

\* C10: when the visual and AI checks pass, the ability check visits every
\* ability in list order: one error per empty name and one per missing class,
\* so there are as many ability errors as empty names plus missing classes.
C10_EveryAbilityChecked ==
    (/\ Returned
     /\ Validated.VisualCustomization.SkeletalMesh # Null
     /\ Validated.AIConfig.BehaviorTree # Null
     /\ Validated.AIConfig.Blackboard # Null) =>
        LET before == ErrorsBeforeChecks(validateCall.self)
            Abilities == Validated.Abilities
            recorded == SubSeq(Errors, Len(before) + 1, Len(Errors))
        IN  /\ validateCall.ran = AllChecks
            /\ Len(Errors) >= Len(before)
            /\ SubSeq(Errors, 1, Len(before)) = before
            /\ [i \in 1..Len(recorded) |-> recorded[i].Key] = AbilityErrorKeys(Abilities, 1)
            /\ Len(recorded)
                 = Cardinality({i \in 1..Len(Abilities) : Abilities[i].AbilityName = NAME_None})
                   + Cardinality({i \in 1..Len(Abilities) : Abilities[i].AbilityClass = Null})

\* both abilities of the list are in error, the first one twice
C10_Witness ==
    /\ Returned
    /\ validateCall.ran = AllChecks
    /\ Len(Validated.Abilities) = 2
    /\ Validated.Abilities[1].AbilityName = NAME_None
    /\ Validated.Abilities[1].AbilityClass = Null
    /\ Validated.Abilities[2].AbilityClass = Null
    /\ Len(Errors) >= 3

----------------------------------------------------------------------------
(* Warnings *)

\* the templates with the display name and the animation blueprint of t replaced
WithWarningFields(t, display, anim) ==
    [templates EXCEPT ![t].DisplayName = display,
                      ![t].VisualCustomization.AnimationBlueprint = anim]

\* C11: a template validated with an empty or a set display name, and with or
\* without an animation blueprint, gets the same return value, the same
\* validity and the same ordered error list: the two only add warnings.
C11_WarningsNeverChangeTheVerdict ==
    Returned =>
        \A display \in {EmptyText, "Grunt"}, anim \in {Null, Asset} :
            LET other == ValidateTemplate(
                             WithWarningFields(validateCall.self, display, anim),
                             validateCall.self, FEnemyTemplateValidationResult, {})
            IN  /\ other.ret = validateCall.ret
                /\ other.res.bIsValid = OutResult.bIsValid
                /\ other.res.ValidationErrors = Errors

\* a template without display name and animation blueprint passed with the two
\* warnings
C11_Witness ==
    /\ Returned
    /\ validateCall.ret
    /\ Validated.DisplayName = EmptyText
    /\ Validated.VisualCustomization.AnimationBlueprint = Null
    /\ Errors = <<>>
    /\ OutResult.ValidationWarnings =
           <<Text("NoDisplayName", <<>>), Text("NoAnimBP", <<>>)>>

----------------------------------------------------------------------------
(* Properties of ApplyToInstance *)

\* ApplyToInstance was called and got past the null check of the instance
Applied == lastOp = "ApplyToInstance" /\ applyCall.out.ret

Receiver == templates[applyCall.self]

WithModification == applyCall.Modification # NullModification

Supplied == applyCall.Modification[1]

\* the multiplier an entry of the supplied modification gives to stat field f
MultiplierOf(f) ==
    IF WithModification /\ MapContains(Supplied.StatMultipliers, f)
    THEN MapFind(Supplied.StatMultipliers, f)
    ELSE 1

\* C12: the effective stats of ApplyToInstance are the template's base stats
\* with exactly the fields named by a StatMultipliers entry multiplied by the
\* multiplier as given (zero and negative ones too); entries that name no stat
\* field change nothing, and the call leaves the template as it was.
C12_StatsMultipliedAsGiven ==
    [][ (lastOp' = "ApplyToInstance" /\ applyCall'.out.ret) =>
            /\ templates' = templates
            /\ DOMAIN applyCall'.out.FinalStats = DOMAIN Receiver'.BaseStats
            /\ \A f \in DOMAIN Receiver'.BaseStats :
                   applyCall'.out.FinalStats[f] = Receiver'.BaseStats[f] * MultiplierOf(f)' ]_vars

\* a negative damage multiplier was applied next to an entry that names no
\* stat field
C12_Witness ==
    /\ Applied
    /\ WithModification
    /\ MapContains(Supplied.StatMultipliers, "Mana")
    /\ MapContains(Supplied.StatMultipliers, "Damage")
    /\ MapFind(Supplied.StatMultipliers, "Damage") < 0
    /\ applyCall.out.FinalStats.Damage = -20
    /\ applyCall.out.FinalStats.Health = Receiver.BaseStats.Health

\* C13: with a modification, the effective visual customization and AI config
\* of ApplyToInstance equal the modification's VisualModifications and
\* AIModifications in every field, empty fields included; without one they
\* equal the template's own records.
C13_VisualsAndAIReplacedWhole ==
    Applied =>
        IF WithModification
        THEN /\ applyCall.out.FinalVisuals = Supplied.VisualModifications
             /\ applyCall.out.FinalAIConfig = Supplied.AIModifications
        ELSE /\ applyCall.out.FinalVisuals = Receiver.VisualCustomization
             /\ applyCall.out.FinalAIConfig = Receiver.AIConfig

\* a modification with empty visuals and an empty AI config was applied to a
\* template that has all four assets
C13_Witness ==
    /\ Applied
    /\ WithModification
    /\ Receiver.VisualCustomization = CompleteTemplate.VisualCustomization
    /\ Receiver.AIConfig = CompleteTemplate.AIConfig
    /\ applyCall.out.FinalVisuals = FEnemyVisualCustomization
    /\ applyCall.out.FinalAIConfig = FEnemyAIConfig

\* the overrides the supplied modification holds for an ability name
OverridesOf(AbilityName) ==
    IF WithModification
    THEN {Supplied.ModifiedAbilities[k].Value :
              k \in {j \in 1..Len(Supplied.ModifiedAbilities) :
                         Supplied.ModifiedAbilities[j].Key = AbilityName}}
    ELSE {}

\* Sequence lists the template's abilities in order, each replaced by its
\* override where the modification has one
AbilitiesWithOverrides(Sequence) ==
    /\ Len(Sequence) = Len(Receiver.Abilities)
    /\ \A i \in 1..Len(Receiver.Abilities) :
           IF OverridesOf(Receiver.Abilities[i].AbilityName) = {}
           THEN Sequence[i] = Receiver.Abilities[i]
           ELSE Sequence[i] \in OverridesOf(Receiver.Abilities[i].AbilityName)

\* C14 as stated: the abilities that ApplyToInstance applies are the template's
\* abilities in order, each replaced by the override keyed by its name where
\* there is one, and nothing else.
C14_AbilitiesAppliedInTemplateOrder ==
    Applied => AbilitiesWithOverrides(applyCall.out.Applied)

\* C14: on an instance with an ability system component, the definitions that
\* ApplyToInstance hands to ApplyAbility are the template's abilities in order,
\* each replaced by the override keyed by its name where there is one, and
\* nothing else; on an instance without the component nothing is applied.
C14_AbilitiesAppliedWhenComponentPresent ==
    Applied =>
        IF FindAbilitySystem(applyCall.EnemyInstance)
        THEN AbilitiesWithOverrides(applyCall.out.Applied)
        ELSE applyCall.out.Applied = <<>>

\* on an instance with the component, one ability was replaced by its override
\* while another override matched no ability of the template
C14_Witness ==
    /\ Applied
    /\ FindAbilitySystem(applyCall.EnemyInstance)
    /\ WithModification
    /\ \E i \in 1..Len(Receiver.Abilities) :
           applyCall.out.Applied[i] # Receiver.Abilities[i]
    /\ \E k \in MapKeys(Supplied.ModifiedAbilities) :
           \A i \in 1..Len(Receiver.Abilities) : Receiver.Abilities[i].AbilityName # k

----------------------------------------------------------------------------
(* Properties of ValidateConfiguration *)

\* ValidateConfiguration was called and returned
ConfigReturned == lastOp = "ValidateConfiguration" /\ ~crashed

\* the base template reference resolves and the template passes ValidateTemplate
BaseTemplateValid ==
    /\ IsValid(templates, config.BaseTemplate)
    /\ Alone(config.BaseTemplate).ret

\* the number of errors of the result whose key is one of Keys
ErrorCount(Keys) ==
    Cardinality({i \in 1..Len(Errors) : Errors[i].Key \in Keys})

\* the entries of StatMultipliers with a value of zero or below
OffendingMultipliers ==
    {i \in 1..Len(config.Modifications.StatMultipliers) :
         config.Modifications.StatMultipliers[i].Value <= 0}

\* the entries of ModifiedAbilities whose key is none or names no ability of
\* the base template
OffendingAbilityKeys ==
    {i \in 1..Len(config.Modifications.ModifiedAbilities) :
         LET Key == config.Modifications.ModifiedAbilities[i].Key
         IN  \/ Key = NAME_None
             \/ \A k \in 1..Len(templates[config.BaseTemplate].Abilities) :
                    templates[config.BaseTemplate].Abilities[k].AbilityName # Key}

\* C15: for a configuration whose base template is valid, ValidateConfiguration
\* records one error for each stat multiplier of zero or below, and the
\* configuration is invalid as soon as there is one.
C15_EveryStatMultiplierChecked ==
    (ConfigReturned /\ BaseTemplateValid) =>
        /\ ErrorCount({"InvalidStatMultiplier"}) = Cardinality(OffendingMultipliers)
        /\ OffendingMultipliers # {} => (~validateCall.ret /\ ~OutResult.bIsValid)

\* C16: for a configuration whose base template is valid, ValidateConfiguration
\* records one error for each modified-ability key that is none or names no
\* ability of the base template, also when a stat multiplier or an earlier key
\* has failed.
C16_EveryAbilityKeyChecked ==
    (ConfigReturned /\ BaseTemplateValid) =>
        ErrorCount({"InvalidAbilityModification", "UnknownAbilityModification"})
            = Cardinality(OffendingAbilityKeys)

\* C17: when the base template fails ValidateTemplate, ValidateConfiguration
\* returns false with exactly the result ValidateTemplate produced for it, and
\* no error about a stat multiplier or an ability key.
C17_InvalidBaseTemplateStopsValidation ==
    (ConfigReturned /\ IsValid(templates, config.BaseTemplate) /\ ~BaseTemplateValid) =>
        /\ ~validateCall.ret
        /\ OutResult = Alone(config.BaseTemplate).res
        /\ ErrorCount({"InvalidStatMultiplier", "InvalidAbilityModification",
                       "UnknownAbilityModification"}) = 0

\* a base template with errors and a warning stopped the validation of a
\* configuration that holds an offending multiplier and an offending key
C17_Witness ==
    /\ ConfigReturned
    /\ IsValid(templates, config.BaseTemplate)
    /\ ~validateCall.ret
    /\ Len(Errors) = 2
    /\ Len(OutResult.ValidationWarnings) = 1
    /\ OffendingMultipliers # {}
    /\ OffendingAbilityKeys # {}

\* C18: when the base template reference is null or does not resolve,
\* ValidateConfiguration returns false and the result is invalid with exactly
\* one error and no warning, whatever the result held before and whatever the
\* modification holds.
C18_MissingBaseTemplateIsOneError ==
    (ConfigReturned /\ ~IsValid(templates, config.BaseTemplate)) =>
        /\ ~validateCall.ret
        /\ ~OutResult.bIsValid
        /\ Len(Errors) = 1
        /\ OutResult.ValidationWarnings = <<>>

\* an unresolved reference was reported into a result that held messages, for
\* a configuration with multipliers and overrides
C18_Witness ==
    /\ ConfigReturned
    /\ config.BaseTemplate = Unresolved
    /\ validateCall.dirty
    /\ config.Modifications.StatMultipliers # <<>>
    /\ config.Modifications.ModifiedAbilities # <<>>
    /\ Errors = <<Text("NoBaseTemplate", <<>>)>>

----------------------------------------------------------------------------
(* Properties of CreateChildTemplate *)

AfterCreateChildTemplate == lastOp = "CreateChildTemplate"

Child == templates[cloneCall.child]

\* C19: CreateChildTemplate gives a new template whose base stats, AI config,
\* visual customization and abilities equal the parent's at the time of the
\* call, whose parent is the receiver and whose name is the given one; the call
\* leaves every existing template as it was, and an edit of a parent's fields
\* afterwards leaves its children as they were.
C19_ChildCopiesParent ==
    [][ /\ lastOp' = "CreateChildTemplate" =>
              LET Parent == templates[cloneCall'.self]
                  New == templates'[cloneCall'.child]
              IN  /\ cloneCall'.child \notin DOMAIN templates
                  /\ DOMAIN templates' = DOMAIN templates \cup {cloneCall'.child}
                  /\ New.BaseStats = Parent.BaseStats
                  /\ New.AIConfig = Parent.AIConfig
                  /\ New.VisualCustomization = Parent.VisualCustomization
                  /\ New.Abilities = Parent.Abilities
                  /\ New.ParentTemplate = cloneCall'.self
                  /\ New.TemplateName = cloneCall'.name
                  /\ \A t \in DOMAIN templates : templates'[t] = templates[t]
        /\ lastOp' \in {"EditBaseStats", "EditAbilities"} =>
              \A c \in DOMAIN templates :
                  (/\ templates[c].ParentTemplate # Null
                   /\ templates'[templates[c].ParentTemplate]
                          # templates[templates[c].ParentTemplate])
                      => templates'[c] = templates[c] ]_vars

\* the parent of the last child was edited after the call: the child still has
\* the stats the parent had then, the parent has not
C19_Witness ==
    /\ lastOp = "EditBaseStats"
    /\ cloneCall.child # Null
    /\ Child.ParentTemplate = cloneCall.self
    /\ Child.BaseStats = cloneCall.before.BaseStats
    /\ Child.Abilities = cloneCall.before.Abilities
    /\ Child.Abilities # <<>>
    /\ templates[cloneCall.self].BaseStats # Child.BaseStats

\* C20: right after CreateChildTemplate, every data field of the child other
\* than its name and its parent reference equals the parent's: display name,
\* description, tags, stats, AI config, visuals, abilities.
C20_ChildIsFullCopy ==
    AfterCreateChildTemplate =>
        /\ Child.DisplayName = cloneCall.before.DisplayName
        /\ Child.Description = cloneCall.before.Description
        /\ Child.TemplateTags = cloneCall.before.TemplateTags
        /\ Child.BaseStats = cloneCall.before.BaseStats
        /\ Child.AIConfig = cloneCall.before.AIConfig
        /\ Child.VisualCustomization = cloneCall.before.VisualCustomization
        /\ Child.Abilities = cloneCall.before.Abilities

----------------------------------------------------------------------------
(* Properties of the validation result *)

\* C21: Clear leaves the result valid with both lists empty; AddError appends
\* its message to the error list, makes the result invalid and leaves the
\* warnings alone; AddWarning appends its message to the warning list and
\* leaves the validity flag and the errors alone.
C21_ResultOperations ==
    [][ /\ lastOp' = "Clear" =>
              /\ OutResult'.bIsValid
              /\ OutResult'.ValidationErrors = <<>>
              /\ OutResult'.ValidationWarnings = <<>>
        /\ lastOp' = "AddError" =>
              /\ OutResult'.ValidationErrors = OutResult.ValidationErrors \o <<message'>>
              /\ ~OutResult'.bIsValid
              /\ OutResult'.ValidationWarnings = OutResult.ValidationWarnings
        /\ lastOp' = "AddWarning" =>
              /\ OutResult'.ValidationWarnings = OutResult.ValidationWarnings \o <<message'>>
              /\ OutResult'.bIsValid = OutResult.bIsValid
              /\ OutResult'.ValidationErrors = OutResult.ValidationErrors ]_vars

\* a warning was added behind a different one to a valid result
C21_Witness ==
    /\ lastOp = "AddWarning"
    /\ OutResult.bIsValid
    /\ Len(OutResult.ValidationWarnings) = 2
    /\ OutResult.ValidationWarnings[1] # OutResult.ValidationWarnings[2]
    /\ OutResult.ValidationWarnings[2] = message

\* C24 as stated: in every state of a result, from its construction on, the
\* validity flag is set exactly when the error list is empty.
C24_ValidIffNoErrors ==
    OutResult.bIsValid <=> (OutResult.ValidationErrors = <<>>)

\* Clear has been called at least once: the result is valid or holds an error
Cleared == OutResult.bIsValid \/ OutResult.ValidationErrors # <<>>

\* C24: a result with an error is never valid, and the only state that is
\* invalid without an error is the one a constructed result is in until the
\* first Clear: the flag false, no error; from the first Clear on the flag is
\* set exactly when the error list is empty.
C24_ValidIffNoErrorsOnceCleared ==
    [][ /\ OutResult'.ValidationErrors # <<>> => ~OutResult'.bIsValid
        /\ (lastOp' = "Clear" \/ Cleared) =>
               (OutResult'.bIsValid <=> (OutResult'.ValidationErrors = <<>>)) ]_vars

\* a result that had been handed a message was cleared
C24_Witness ==
    /\ lastOp = "Clear"
    /\ message # NoMessage
    /\ OutResult.bIsValid
    /\ OutResult.ValidationErrors = <<>>

----------------------------------------------------------------------------
(* Properties of a configuration in use *)

\* C22: a call on an absent reference fails at once and changes nothing:
\* ApplyToInstance on a null instance returns false; ApplyConfiguration on a
\* null enemy or with a base template that does not resolve returns false and
\* calls none of the apply helpers; InitializeFromTemplate(null) leaves the
\* configuration as it was; CreateEnemyConfiguration(null) returns null.
C22_AbsentReferenceFailsAtOnce ==
    [][ /\ (lastOp' = "ApplyToInstance" /\ applyCall'.EnemyInstance = Null) =>
              /\ ~applyCall'.out.ret
              /\ applyCall'.out.calls = <<>>
              /\ templates' = templates
        /\ (/\ lastOp' = "ApplyConfiguration"
            /\ \/ applyCall'.EnemyInstance = Null
               \/ config.BaseTemplate \notin DOMAIN templates) =>
              /\ ~applyCall'.out.ret
              /\ applyCall'.out.calls = <<>>
              /\ applyCall'.out.Applied = <<>>
              /\ templates' = templates /\ config' = config
        /\ (lastOp' = "InitializeFromTemplate" /\ toolCall'.arg = Null) =>
              config' = config /\ templates' = templates
        /\ (lastOp' = "CreateEnemyConfiguration" /\ toolCall'.arg = Null) =>
              /\ toolCall'.ret = Null
              /\ config' = config /\ templates' = templates
              /\ applyCall' = applyCall ]_vars

\* a configuration with modifications and an unresolved base template was
\* applied to an enemy that is there
C22_Witness ==
    /\ lastOp = "ApplyConfiguration"
    /\ applyCall.EnemyInstance # Null
    /\ config.BaseTemplate = Unresolved
    /\ config.Modifications.StatMultipliers # <<>>
    /\ ~applyCall.out.ret
    /\ applyCall.out.calls = <<>>

\* InitializeFromTemplate was called with a template
Initialized == lastOp = "InitializeFromTemplate" /\ toolCall.arg # Null

----------------------------------------------------------------------------
(* Validated configurations, applied *)

\* ValidateConfiguration returned true
ConfigAccepted == ConfigReturned /\ validateCall.ret

\* in what applying the configuration to Enemy hands to ApplyAbility, every
\* entry of ModifiedAbilities stands in the place of an ability of the base
\* template that has its key as name
EveryOverrideReplaces(Enemy) ==
    LET out == ApplyConfiguration(templates, config, Enemy)
        Abilities == templates[config.BaseTemplate].Abilities
        Overrides == config.Modifications.ModifiedAbilities
    IN  \A i \in 1..Len(Overrides) :
            \E j \in 1..Len(Abilities) :
                /\ Abilities[j].AbilityName = Overrides[i].Key
                /\ j <= Len(out.Applied)
                /\ out.Applied[j] = Overrides[i].Value

\* every stat multiplier of the configuration is above zero
EveryMultiplierPositive ==
    \A i \in 1..Len(config.Modifications.StatMultipliers) :
        config.Modifications.StatMultipliers[i].Value > 0

\* C26 as stated: a configuration that ValidateConfiguration accepts, applied
\* to an enemy, has every ModifiedAbilities entry replace an ability of the
\* base template and only stat multipliers above zero.
C26_AcceptedConfigurationFullyApplied ==
    ConfigAccepted =>
        /\ EveryMultiplierPositive
        /\ \A Enemy \in {PlainCharacter, CharacterWithAbilities} :
               EveryOverrideReplaces(Enemy)

\* C26: a configuration that ValidateConfiguration accepts has only stat
\* multipliers above zero and, applied to an enemy with an ability system
\* component, has every ModifiedAbilities entry replace an ability of the base
\* template; applied to an enemy without the component no ability and no
\* override is applied.
C26_AcceptedConfigurationAppliedWithComponent ==
    ConfigAccepted =>
        /\ EveryMultiplierPositive
        /\ EveryOverrideReplaces(CharacterWithAbilities)
        /\ ApplyConfiguration(templates, config, PlainCharacter).Applied = <<>>

\* an accepted configuration with a multiplier of a stat and an override of
\* the template's ability
C26_Witness ==
    /\ ConfigAccepted
    /\ MapContains(config.Modifications.StatMultipliers, "Health")
    /\ MapContains(config.Modifications.ModifiedAbilities, "BasicAttack")
    /\ ApplyConfiguration(templates, config, CharacterWithAbilities).Applied
           # templates[config.BaseTemplate].Abilities

----------------------------------------------------------------------------
(* Ability names and positions *)

\* C27: a template that passes ValidateTemplate has no two abilities of the
\* same name, so a ModifiedAbilities key targets one ability of it at most.
C27_ValidTemplateHasDistinctAbilityNames ==
    (Returned /\ validateCall.ret) =>
        \A i, j \in 1..Len(Validated.Abilities) :
            i # j => Validated.Abilities[i].AbilityName # Validated.Abilities[j].AbilityName

\* C30: for every unnamed ability that the ability check of ValidateTemplate
\* looks at, the NoAbilityName error carries that ability's own (zero based)
\* position in the ability list, one error for each such position.
C30_UnnamedAbilityReportedAtItsPosition ==
    (Returned /\ Contains(validateCall.ran, "ValidateAbilities")) =>
        \A i \in 1..Len(Validated.Abilities) :
            Validated.Abilities[i].AbilityName = NAME_None =>
                Contains(Errors, Text("NoAbilityName", <<AsNumber(i - 1)>>))

----------------------------------------------------------------------------
(* Properties of child templates *)

\* C28: the child that CreateChildTemplate makes, under a name that is not
\* none, of a template that passes ValidateTemplate passes ValidateTemplate
\* too: it is valid and has no error.
C28_ChildOfValidTemplateIsValid ==
    (/\ AfterCreateChildTemplate
     /\ cloneCall.name # NAME_None
     /\ Alone(cloneCall.self).ret) =>
        /\ Alone(cloneCall.child).ret
        /\ Alone(cloneCall.child).res.bIsValid
        /\ Alone(cloneCall.child).res.ValidationErrors = <<>>

\* the child of a valid template that has a display name is valid with the
\* warning about its own empty display name
C28_Witness ==
    /\ AfterCreateChildTemplate
    /\ cloneCall.name # NAME_None
    /\ Alone(cloneCall.self).ret
    /\ cloneCall.before.DisplayName # EmptyText
    /\ Child.Abilities # <<>>
    /\ Alone(cloneCall.child).ret
    /\ Alone(cloneCall.child).res.ValidationWarnings = <<Text("NoDisplayName", <<>>)>>

\* the chain of t computed afresh from the parent references as they are
FreshChain(t) == ChainLoop(templates, <<>>, t, 0).chain

\* C29: with parentless templates to start from and CreateChildTemplate as
\* the only way to get a parent, no template is its own ancestor, and the
\* first GetInheritanceChain of a child is the child followed by the freshly
\* computed chain of the template it was created from.
C29_ChildChainExtendsParentChain ==
    /\ \A t \in DOMAIN templates : NthParent(t, Len(templates)) = Null
    /\ (AfterGetInheritanceChain /\ chainCall.before = "never") =>
           /\ chainCall.self = cloneCall.child =>
                  chainCall.chain = <<chainCall.self>> \o FreshChain(cloneCall.self)
           /\ ParentOf(chainCall.self) # Null =>
                  chainCall.chain = <<chainCall.self>> \o FreshChain(ParentOf(chainCall.self))

\* the first chain of a child of a child: the child, its parent, the root
C29_Witness ==
    /\ AfterGetInheritanceChain
    /\ chainCall.before = "never"
    /\ chainCall.self = cloneCall.child
    /\ Len(chainCall.chain) = 3
    /\ chainCall.chain[2] = cloneCall.self
    /\ ParentOf(chainCall.chain[3]) = Null

----------------------------------------------------------------------------
(* New templates *)

\* the template the last CreateNewEnemyTemplate call built had every default
\* asset and every default ability class load
EveryDefaultLoaded ==
    /\ GetVisualCustomization(toolCall.created).SkeletalMesh # Null
    /\ GetVisualCustomization(toolCall.created).AnimationBlueprint # Null
    /\ GetAIConfig(toolCall.created).BehaviorTree # Null
    /\ \A i \in 1..Len(toolCall.created.Abilities) :
           toolCall.created.Abilities[i].AbilityClass # Null

\* C23: CreateNewEnemyTemplate with a non-empty name returns a template when the
\* default mesh, animation blueprint, behavior tree and every default ability
\* class of the type load; and every template it returns passes ValidateTemplate
\* with no errors.
C23_NewTemplateReturnedWhenAssetsLoad ==
    lastOp = "CreateNewEnemyTemplate" =>
        /\ (toolCall.created.DisplayName # EmptyText /\ EveryDefaultLoaded)
               => toolCall.ret # Null
        /\ toolCall.ret # Null =>
               LET again == ValidateTemplate(templates, toolCall.ret,
                                             FEnemyTemplateValidationResult, {})
               IN  again.ret /\ again.res.ValidationErrors = <<>>

====
